---- MODULE Spec2Model ----
(***************************************************************************)
(* snipbook: meld images, snip regions of interest out of them, merge the  *)
(* snippets into a PDF.  The module models snipbook.py: the pure helpers   *)
(* (find_contiguous_rectangles, crop, combine_two, resize_and_center,      *)
(* hex_to_rgb) as operators and the three commands as state machines.      *)
(***************************************************************************)
EXTENDS Integers, Sequences, FiniteSets, TLC

VARIABLES
    \* find_contiguous_rectangles(nparr)
    rpc,            \* position in find_contiguous_rectangles
    nparr,          \* the boolean mask: the set of its true cells <<row, col>>
    labeled_array,  \* label(nparr)[0]: true cell -> label 1..num_features
    num_features,   \* label(nparr)[1]
    ri,             \* loop variable i of the for loop
    rectangles,     \* the list being built, then sorted
    \* crop(img, region, autocrop_color, autocrop_tolerance)
    cpc,            \* position in crop
    img,            \* the source image
    region,         \* [left, top, right, bottom]
    color_arg,      \* the autocrop_color argument, a string
    tolerance,      \* the autocrop_tolerance argument, in percent
    autocrop_color, \* the local autocrop_color once resolved (FALSE: no autocrop)
    img_cropped,    \* the local img_cropped; the return value at "done"
    again,          \* the autocrop applied once more to the returned image
    \* meld(args), combine_multiple(images, method)
    mpc,            \* position in meld
    m_files,        \* args.files: what Image.open finds at each path
    m_method,       \* args.method
    m_output,       \* the file at args.output: "absent", "present" (it was
                    \* there before the run), "empty" (created, nothing
                    \* written), "png" (the melded image written)
    combined,       \* the local combined of combine_multiple
    mi,             \* the position in images of the loop's img
    m_error,        \* the exception that ended the run, "" for none
    \* merge(args)
    gpc,            \* position in merge
    g_files,        \* args.files: the size in pixels of the image at each path
    g_margin,       \* args.margin
    g_size,         \* args.size
    g_dpi,          \* args.dpi
    g_expand,       \* args.expand
    g_output,       \* the file at args.output: "absent", "present", "pdf"
    max_img_dim,    \* the local max_img_dim
    scale,          \* the local scale, px/mm
    page_dim,       \* the local page_dim, mm
    gi,             \* the 1-based position of the loop's file
    pages,          \* the pages added to pdf, each with its image
    g_error,        \* the exception that ended the run, "" for none
    g_line,         \* the line that raised it
    \* snip(args)
    spc,            \* position in snip
    s_files,        \* args.files, paths
    s_roi,          \* args.roi
    s_outputdir,    \* the directory at args.outputdir: "absent", "present"
                    \* (it was there before the run), "created"
    s_crop,         \* args.crop
    s_tolerance,    \* args.tolerance
    s_format,       \* args.format
    roi,            \* the local roi, a list of rectangles
    si,             \* the 1-based position of the loop's f
    s_img,          \* the local img
    sri,            \* the loop's ri, 0-based
    s_i,            \* the local i, the number of snippets saved
    out_files,      \* the files in the output directory: name -> image
    s_steps,        \* the processing steps done so far, in order
    s_error,        \* the exception that ended the run, "" for none
    s_line          \* the line that raised it

regionVars == <<rpc, nparr, labeled_array, num_features, ri, rectangles>>
cropVars == <<cpc, img, region, color_arg, tolerance, autocrop_color,
              img_cropped, again>>

meldVars == <<mpc, m_files, m_method, m_output, combined, mi, m_error>>

mergeVars == <<gpc, g_files, g_margin, g_size, g_dpi, g_expand, g_output,
               max_img_dim, scale, page_dim, gi, pages, g_error, g_line>>

snipVars == <<spc, s_files, s_roi, s_outputdir, s_crop, s_tolerance, s_format,
              roi, si, s_img, sri, s_i, out_files, s_steps, s_error, s_line>>

vars == <<regionVars, cropVars, meldVars, mergeVars, snipVars>>

\* what each component leaves alone
notRegion == <<cropVars, meldVars, mergeVars, snipVars>>
notCrop == <<regionVars, meldVars, mergeVars, snipVars>>
notMeld == <<regionVars, cropVars, mergeVars, snipVars>>
notMerge == <<regionVars, cropVars, meldVars, snipVars>>
notSnip == <<regionVars, cropVars, meldVars, mergeVars>>

----------------------------------------------------------------------------
(* Helpers *)

Min(S) == CHOOSE x \in S : \A y \in S : x <= y
Max(S) == CHOOSE x \in S : \A y \in S : x >= y

----------------------------------------------------------------------------
(* find_contiguous_rectangles *)

MaskW == 3
MaskH == 3

\* cells of the mask are <<row, col>>, as np.where returns them
MaskCells == (0 .. MaskH - 1) \X (0 .. MaskW - 1)

\* the mask of the two disjoint 2x2 blocks at (0,0)-(1,1) and (5,5)-(6,6)
TwoBlocks ==
    { <<0, 0>>, <<0, 1>>, <<1, 0>>, <<1, 1>>,
      <<5, 5>>, <<5, 6>>, <<6, 5>>, <<6, 6>> }

Masks == (SUBSET MaskCells) \cup {TwoBlocks}

\* scipy.ndimage.label's default structure in 2-D: orthogonal neighbours
Adjacent(a, b) ==
    \/ a[1] = b[1] /\ (a[2] - b[2] = 1 \/ b[2] - a[2] = 1)
    \/ a[2] = b[2] /\ (a[1] - b[1] = 1 \/ b[1] - a[1] = 1)

RECURSIVE Grow(_, _)
Grow(mask, seen) ==
    LET more == { c \in mask \ seen : \E s \in seen : Adjacent(c, s) }
    IN  IF more = {} THEN seen ELSE Grow(mask, seen \cup more)

ComponentOf(mask, c) == Grow(mask, {c})

RasterBefore(a, b) == a[1] < b[1] \/ (a[1] = b[1] /\ a[2] < b[2])

FirstCell(S) == CHOOSE c \in S : \A d \in S : c = d \/ RasterBefore(c, d)

\* label(): components numbered 1.. in the order a row-major scan meets them
RECURSIVE LabelFrom(_, _, _, _)
LabelFrom(mask, rest, next, acc) ==
    IF rest = {} THEN [labels |-> acc, n |-> next - 1]
    ELSE LET comp == ComponentOf(mask, FirstCell(rest))
         IN  LabelFrom(mask, rest \ comp, next + 1,
                       [c \in DOMAIN acc \cup comp |->
                            IF c \in comp THEN next ELSE acc[c]])

Label(mask) == LabelFrom(mask, mask, 1, <<>>)

\* line 203: [cols.min(), rows.min(), cols.max(), rows.max()]
RectangleOf(cells) ==
    LET rows == { c[1] : c \in cells }
        cols == { c[2] : c \in cells }
    IN  << Min(cols), Min(rows), Max(cols), Max(rows) >>

\* a key that weighs the top instead of the left
SortKeyTopHeavy(x) == x[1] + 2 * x[2]

\* line 204: key=lambda x: 2*x[0] + x[1]
SortKey(x) == 2 * x[1] + x[2]

\* sorted() is stable: an element goes behind every element whose key is not
\* greater than its own
RECURSIVE InsertByKey(_, _)
InsertByKey(s, x) ==
    IF s = <<>> THEN <<x>>
    ELSE IF SortKey(x) < SortKey(s[Len(s)])
         THEN Append(InsertByKey(SubSeq(s, 1, Len(s) - 1), x), s[Len(s)])
         ELSE Append(s, x)

RECURSIVE Sorted(_)
Sorted(s) ==
    IF s = <<>> THEN <<>>
    ELSE InsertByKey(Sorted(SubSeq(s, 1, Len(s) - 1)), s[Len(s)])

RegionIdle ==
    /\ rpc = "idle"
    /\ nparr = {}
    /\ labeled_array = <<>>
    /\ num_features = 0
    /\ ri = 0
    /\ rectangles = <<>>

RegionStart ==
    /\ rpc = "label"
    /\ nparr \in Masks
    /\ labeled_array = <<>>
    /\ num_features = 0
    /\ ri = 0
    /\ rectangles = <<>>

\* lines 199-200
RegionLabel ==
    /\ rpc = "label"
    /\ labeled_array' = Label(nparr).labels
    /\ num_features' = Label(nparr).n
    /\ rectangles' = <<>>
    /\ ri' = 1
    /\ rpc' = "loop"
    /\ UNCHANGED <<nparr, notRegion>>

\* lines 201-203
RegionAppend ==
    /\ rpc = "loop"
    /\ ri <= num_features
    /\ rectangles' = Append(rectangles,
           RectangleOf({ c \in DOMAIN labeled_array : labeled_array[c] = ri }))
    /\ ri' = ri + 1
    /\ UNCHANGED <<rpc, nparr, labeled_array, num_features, notRegion>>

\* lines 204-205
RegionSort ==
    /\ rpc = "loop"
    /\ ri > num_features
    /\ rectangles' = Sorted(rectangles)
    /\ rpc' = "done"
    /\ UNCHANGED <<nparr, labeled_array, num_features, ri, notRegion>>

RegionNext == RegionLabel \/ RegionAppend \/ RegionSort

----------------------------------------------------------------------------
(* Images *)

\* A PIL image: mode "RGB" or "RGBA", size <<width, height>>, and the pixels
\* px[y + 1][x + 1], each a tuple of 3 or 4 samples 0..255.
Bands(mode) == IF mode = "RGBA" THEN 4 ELSE 3

MkImage(mode, w, h, px) == [mode |-> mode, size |-> <<w, h>>, px |-> px]

Width(im) == im.size[1]
Height(im) == im.size[2]

\* Image.getpixel((x, y))
GetPixel(im, x, y) == im.px[y + 1][x + 1]

\* the sample every band of a new or padded pixel holds
ZeroPixel(mode) == [b \in 1 .. Bands(mode) |-> 0]

\* no image yet
NoImage == MkImage("none", 0, 0, <<>>)

\* Image.crop(box): the box's pixels, zero where the box leaves the image
CropBox(im, box) ==
    LET w == box[3] - box[1]
        h == box[4] - box[2]
    IN  MkImage(im.mode, w, h,
          [y \in 1 .. h |-> [x \in 1 .. w |->
              LET sx == box[1] + x - 1
                  sy == box[2] + y - 1
              IN  IF sx >= 0 /\ sx < Width(im) /\ sy >= 0 /\ sy < Height(im)
                  THEN GetPixel(im, sx, sy)
                  ELSE ZeroPixel(im.mode)]])

----------------------------------------------------------------------------
(* hex_to_rgb *)

HexDigits ==
    << "0", "1", "2", "3", "4", "5", "6", "7", "8", "9",
       "a", "b", "c", "d", "e", "f" >>
HexDigitsUpper ==
    << "0", "1", "2", "3", "4", "5", "6", "7", "8", "9",
       "A", "B", "C", "D", "E", "F" >>

IsHexChar(c) == \E i \in 1 .. 16 : HexDigits[i] = c \/ HexDigitsUpper[i] = c
HexValue(c) ==
    (CHOOSE i \in 1 .. 16 : HexDigits[i] = c \/ HexDigitsUpper[i] = c) - 1

\* str.lstrip("#")
RECURSIVE LStripHash(_)
LStripHash(str) ==
    IF str # <<>> /\ Head(str) = "#" THEN LStripHash(Tail(str)) ELSE str

\* hex_to_rgb(hex) raises ValueError: on the length (line 211), or in int()
HexRaises(hex) ==
    LET h == LStripHash(hex)
    IN  Len(h) # 6 \/ \E i \in 1 .. Len(h) : ~IsHexChar(h[i])

\* hex_to_rgb(hex): the three samples
HexToRgb(hex) ==
    LET h == LStripHash(hex)
    IN  [ k \in 1 .. 3 |-> 16 * HexValue(h[2 * k - 1]) + HexValue(h[2 * k]) ]

\* str.upper(), on the characters the arguments use
UpperChar(c) ==
    CASE c = "a" -> "A" [] c = "b" -> "B" [] c = "c" -> "C" [] c = "d" -> "D"
      [] c = "e" -> "E" [] c = "f" -> "F" [] c = "n" -> "N" [] c = "o" -> "O"
      [] c = "t" -> "T" [] c = "u" -> "U" [] OTHER -> c

Upper(str) == [ i \in 1 .. Len(str) |-> UpperChar(str[i]) ]

----------------------------------------------------------------------------
(* crop *)

Abs(x) == IF x < 0 THEN -x ELSE x

\* a comparison that leaves out the pixels exactly at the tolerance
WithinToleranceStrict(p, ref, tol) ==
    \A ch \in 1 .. 3 : 100 * Abs(p[ch] - ref[ch]) < 255 * tol

\* line 226 and line 245: np.abs(pixel[:3] - autocrop_color[:3]) <=
\* (tolerance / 100) * 255 on every one of the first three channels.  The
\* samples are integers 0..255 and the tolerance an integer, where the float
\* comparison d <= (tol / 100) * 255 decides as 100 * d <= 255 * tol does.
WithinTolerance(p, ref, tol) ==
    \A ch \in 1 .. 3 : 100 * Abs(p[ch] - ref[ch]) <= 255 * tol

\* autocrop_color = False: no autocrop
NoColor == <<>>

\* lines 228-233: the reference colour, or False for no autocrop
ResolveColor(im, arg) ==
    IF Upper(arg) = <<"A", "U", "T", "O">> THEN GetPixel(im, 0, 0)
    ELSE IF Upper(arg) = <<"N", "O">> THEN NoColor
    ELSE HexToRgb(arg)

\* line 233 raises
ResolveColorRaises(arg) ==
    /\ Upper(arg) # <<"A", "U", "T", "O">>
    /\ Upper(arg) # <<"N", "O">>
    /\ HexRaises(arg)

\* line 248: np.argwhere(~mask), the <<row, col>> of the pixels out of tolerance
Coords(im, ref, tol) ==
    { c \in (0 .. Height(im) - 1) \X (0 .. Width(im) - 1) :
        ~WithinTolerance(GetPixel(im, c[2], c[1]), ref, tol) }

\* an autocrop whose box stops at the last row and column out of tolerance
\* instead of one past them
AutoCropInclusive(im, ref, tol) ==
    IF ref = NoColor THEN im
    ELSE LET coords == Coords(im, ref, tol)
         IN  IF coords = {} THEN im
             ELSE LET top == Min({ c[1] : c \in coords })
                      left == Min({ c[2] : c \in coords })
                      bottom == Max({ c[1] : c \in coords })
                      right == Max({ c[2] : c \in coords })
                  IN  CropBox(im, <<left, top, right, bottom>>)

\* lines 239-252: the autocrop of the cropped image
AutoCrop(im, ref, tol) ==
    IF ref = NoColor THEN im
    ELSE LET coords == Coords(im, ref, tol)
         IN  IF coords = {} THEN im
             ELSE LET top == Min({ c[1] : c \in coords })
                      left == Min({ c[2] : c \in coords })
                      bottom == Max({ c[1] : c \in coords }) + 1
                      right == Max({ c[2] : c \in coords }) + 1
                  IN  CropBox(im, <<left, top, right, bottom>>)

\* crop(): the returned image (where line 233 does not raise)
Crop(im, box, arg, tol) ==
    AutoCrop(CropBox(im, box), ResolveColor(im, arg), tol)

MaxCells == 4

PaletteRGB == { <<0, 0, 0>>, <<0, 25, 0>>, <<255, 255, 255>> }
PaletteRGBA == { <<0, 0, 0, 0>>, <<0, 0, 0, 255>>, <<255, 255, 255, 255>> }
Palette(mode) == IF mode = "RGBA" THEN PaletteRGBA ELSE PaletteRGB

Sizes == { s \in (1 .. MaxCells) \X (1 .. MaxCells) : s[1] * s[2] <= MaxCells }

ImagesOfSize(mode, w, h) ==
    { MkImage(mode, w, h, px) : px \in [1 .. h -> [1 .. w -> Palette(mode)]] }

\* a 3x3 image: one pixel of content inside a border one pixel wide
BorderImage(border, content) ==
    MkImage("RGB", 3, 3,
        [y \in 1 .. 3 |-> [x \in 1 .. 3 |->
            IF x = 2 /\ y = 2 THEN content ELSE border]])

BorderImages ==
    { BorderImage(b, c) : b \in PaletteRGB, c \in PaletteRGB }

Images ==
    UNION { ImagesOfSize(m, s[1], s[2]) : m \in {"RGB", "RGBA"}, s \in Sizes }
        \cup BorderImages

\* the boxes inside the image, and the one that reaches a pixel past its
\* right and bottom edge
Regions(im) ==
    { box \in (0 .. Width(im)) \X (0 .. Height(im))
                \X (0 .. Width(im)) \X (0 .. Height(im)) :
        box[1] < box[3] /\ box[2] < box[4] }
      \cup { <<0, 0, Width(im) + 1, Height(im) + 1>> }

ColorArgs ==
    { <<"a", "u", "t", "o">>, <<"n", "o">>,
      <<"#", "0", "0", "0", "0", "0", "0">>,
      <<"#", "F", "f", "F", "f", "F", "f">>,
      <<"#", "f", "f", "f">> }

Tolerances == { 0, 10, 100 }

CropIdle ==
    /\ cpc = "idle"
    /\ img = NoImage
    /\ region = <<>>
    /\ color_arg = <<>>
    /\ tolerance = 0
    /\ autocrop_color = NoColor
    /\ img_cropped = NoImage
    /\ again = NoImage

CropStart ==
    /\ cpc = "color"
    /\ img \in Images
    /\ region \in Regions(img)
    /\ color_arg \in ColorArgs
    /\ tolerance \in Tolerances
    /\ autocrop_color = NoColor
    /\ img_cropped = NoImage
    /\ again = NoImage

\* lines 226-233
CropResolveColor ==
    /\ cpc = "color"
    /\ IF ResolveColorRaises(color_arg)
       THEN cpc' = "error" /\ UNCHANGED autocrop_color
       ELSE /\ cpc' = "crop"
            /\ autocrop_color' = ResolveColor(img, color_arg)
    /\ UNCHANGED <<img, region, color_arg, tolerance, img_cropped, again,
                   notCrop>>

\* line 236
CropRegion ==
    /\ cpc = "crop"
    /\ img_cropped' = CropBox(img, region)
    /\ cpc' = "autocrop"
    /\ UNCHANGED <<img, region, color_arg, tolerance, autocrop_color, again,
                   notCrop>>

\* lines 239-254
CropAutoCrop ==
    /\ cpc = "autocrop"
    /\ img_cropped' = AutoCrop(img_cropped, autocrop_color, tolerance)
    /\ cpc' = "done"
    /\ UNCHANGED <<img, region, color_arg, tolerance, autocrop_color, again,
                   notCrop>>

\* lines 239-252 once more, on the returned image with the same reference
\* colour and tolerance
CropAutoCropAgain ==
    /\ cpc = "done"
    /\ again' = AutoCrop(img_cropped, autocrop_color, tolerance)
    /\ cpc' = "again"
    /\ UNCHANGED <<img, region, color_arg, tolerance, autocrop_color,
                   img_cropped, notCrop>>

CropNext ==
    CropResolveColor \/ CropRegion \/ CropAutoCrop \/ CropAutoCropAgain

----------------------------------------------------------------------------
(* meld, combine_multiple, combine_two, resize_and_center *)

\* a pixel as Image.paste converts it into an RGBA image: opaque if it had
\* no alpha
ToRGBA(p) == IF Len(p) = 3 THEN p \o <<255>> ELSE p

\* resize_and_center(img, target_size)
ResizeAndCenter(im, target_size) ==
    IF im.size = target_size THEN im
    ELSE LET ox == (target_size[1] - Width(im)) \div 2
             oy == (target_size[2] - Height(im)) \div 2
         IN  MkImage("RGBA", target_size[1], target_size[2],
               [y \in 1 .. target_size[2] |-> [x \in 1 .. target_size[1] |->
                   IF /\ x - 1 >= ox /\ x - 1 < ox + Width(im)
                      /\ y - 1 >= oy /\ y - 1 < oy + Height(im)
                   THEN ToRGBA(GetPixel(im, x - 1 - ox, y - 1 - oy))
                   ELSE ZeroPixel("RGBA")]])

\* line 178
MaxDims(img1, img2) ==
    << Max({Width(img1), Width(img2)}), Max({Height(img1), Height(img2)}) >>

\* lines 182-185: np.minimum / np.maximum cannot broadcast an (h, w, 3) array
\* against an (h, w, 4) array and raise ValueError
CombineTwoRaises(img1, img2) ==
    Bands(ResizeAndCenter(img1, MaxDims(img1, img2)).mode)
        # Bands(ResizeAndCenter(img2, MaxDims(img1, img2)).mode)

\* combine_two(img1, img2, method), where it does not raise
CombineTwo(img1, img2, method) ==
    LET max_dims == MaxDims(img1, img2)
        a == ResizeAndCenter(img1, max_dims)
        b == ResizeAndCenter(img2, max_dims)
    IN  MkImage(a.mode, max_dims[1], max_dims[2],
          [y \in 1 .. max_dims[2] |-> [x \in 1 .. max_dims[1] |->
              [ch \in 1 .. Bands(a.mode) |->
                  IF method = "min"
                  THEN Min({a.px[y][x][ch], b.px[y][x][ch]})
                  ELSE Max({a.px[y][x][ch], b.px[y][x][ch]})]]])

MeldMaxDim == 2
MaxFiles == 3

\* a path Image.open finds no image at
Missing == MkImage("missing", 0, 0, <<>>)

\* combined while it still is images[0], a path (line 160)
PathString == MkImage("str", 0, 0, <<>>)

UniformImage(mode, w, h, c) ==
    MkImage(mode, w, h, [y \in 1 .. h |-> [x \in 1 .. w |-> c]])

MeldImages ==
    { UniformImage(mode, w, h, c) :
        mode \in {"RGB"}, w \in 1 .. MeldMaxDim, h \in 1 .. MeldMaxDim,
        c \in PaletteRGB }
    \cup
    { UniformImage(mode, w, h, c) :
        mode \in {"RGBA"}, w \in 1 .. MeldMaxDim, h \in 1 .. MeldMaxDim,
        c \in PaletteRGBA }

MeldFileLists ==
    UNION { [1 .. n -> MeldImages \cup {Missing}] : n \in 1 .. MaxFiles }

MeldIdle ==
    /\ mpc = "idle"
    /\ m_files = <<>>
    /\ m_method = "min"
    /\ m_output = "absent"
    /\ combined = NoImage
    /\ mi = 0
    /\ m_error = ""

MeldStart ==
    /\ mpc = "open"
    /\ m_files \in MeldFileLists
    /\ m_method \in {"min", "max"}
    /\ m_output \in {"absent", "present"}
    /\ combined = NoImage
    /\ mi = 0
    /\ m_error = ""

\* line 67: open(args.output, 'xb') raises if the file exists
MeldOpenExisting ==
    /\ mpc = "open"
    /\ m_output = "present"
    /\ mpc' = "error"
    /\ m_error' = "FileExistsError"
    /\ UNCHANGED <<m_files, m_method, m_output, combined, mi, notMeld>>

\* line 67: open(args.output, 'xb') creates the file; lines 158-160
MeldOpen ==
    /\ mpc = "open"
    /\ m_output = "absent"
    /\ m_output' = "empty"
    /\ combined' = PathString
    /\ mi' = 2
    /\ mpc' = "fold"
    /\ UNCHANGED <<m_files, m_method, m_error, notMeld>>

\* lines 163-164 or 165-166: Image.open finds no image; the with block of
\* line 67 closes the file it created and leaves it
MeldFoldNotFound ==
    /\ mpc = "fold"
    /\ mi <= Len(m_files)
    /\ \/ combined = PathString /\ m_files[1] = Missing
       \/ m_files[mi] = Missing
    /\ mpc' = "error"
    /\ m_error' = "FileNotFoundError"
    /\ UNCHANGED <<m_files, m_method, m_output, combined, mi, notMeld>>

\* lines 161-167 with combine_two raising at line 183 or 185
MeldFoldRaises ==
    /\ mpc = "fold"
    /\ mi <= Len(m_files)
    /\ ~(combined = PathString /\ m_files[1] = Missing)
    /\ m_files[mi] # Missing
    /\ LET img1 == IF combined = PathString THEN m_files[1] ELSE combined
       IN  CombineTwoRaises(img1, m_files[mi])
    /\ mpc' = "error"
    /\ m_error' = "ValueError"
    /\ UNCHANGED <<m_files, m_method, m_output, combined, mi, notMeld>>

\* lines 161-167
MeldFold ==
    /\ mpc = "fold"
    /\ mi <= Len(m_files)
    /\ ~(combined = PathString /\ m_files[1] = Missing)
    /\ m_files[mi] # Missing
    /\ LET img1 == IF combined = PathString THEN m_files[1] ELSE combined
       IN  /\ ~CombineTwoRaises(img1, m_files[mi])
           /\ combined' = CombineTwo(img1, m_files[mi], m_method)
    /\ mi' = mi + 1
    /\ UNCHANGED <<mpc, m_files, m_method, m_output, m_error, notMeld>>

\* lines 168-169: combine_multiple returns combined
MeldFoldReturn ==
    /\ mpc = "fold"
    /\ mi > Len(m_files)
    /\ mpc' = "save"
    /\ UNCHANGED <<m_files, m_method, m_output, combined, mi, m_error, notMeld>>

\* line 71 on a path: a str has no save
MeldSaveRaises ==
    /\ mpc = "save"
    /\ combined = PathString
    /\ mpc' = "error"
    /\ m_error' = "AttributeError"
    /\ UNCHANGED <<m_files, m_method, m_output, combined, mi, notMeld>>

\* line 71
MeldSave ==
    /\ mpc = "save"
    /\ combined # PathString
    /\ m_output' = "png"
    /\ mpc' = "done"
    /\ UNCHANGED <<m_files, m_method, combined, mi, m_error, notMeld>>

MeldNext ==
    \/ MeldOpenExisting \/ MeldOpen
    \/ MeldFoldNotFound \/ MeldFoldRaises \/ MeldFold \/ MeldFoldReturn
    \/ MeldSaveRaises \/ MeldSave

----------------------------------------------------------------------------
(* Exact arithmetic for merge's float computations *)

\* A number is a fraction <<numerator, denominator>> in lowest terms with a
\* positive denominator: the value the float computation rounds.
RECURSIVE GCD(_, _)
GCD(a, b) == IF b = 0 THEN a ELSE GCD(b, a % b)

Frac(n, d) ==
    LET g == GCD(Abs(n), Abs(d))
        sgn == IF d < 0 THEN -1 ELSE 1
    IN  << sgn * (n \div g), sgn * (d \div g) >>

Whole(n) == <<n, 1>>
FAdd(a, b) == Frac(a[1] * b[2] + b[1] * a[2], a[2] * b[2])
FSub(a, b) == Frac(a[1] * b[2] - b[1] * a[2], a[2] * b[2])
FMul(a, b) == Frac(a[1] * b[1], a[2] * b[2])
FDiv(a, b) == Frac(a[1] * b[2], a[2] * b[1])
FLess(a, b) == a[1] * b[2] < b[1] * a[2]
FLeq(a, b) == a[1] * b[2] <= b[1] * a[2]
FIsZero(a) == a[1] = 0
FMax(a, b) == IF FLess(a, b) THEN b ELSE a
FMin(a, b) == IF FLess(b, a) THEN b ELSE a

----------------------------------------------------------------------------
(* merge, page_size *)

\* lines 15-21: PAGE_SIZES, in mm
PageSizeNames == {"A4", "A5", "letter", "legal"}
PAGE_SIZES(name) ==
    CASE name = "A4" -> << Whole(210), Whole(297) >>
      [] name = "A5" -> << Whole(148), Whole(210) >>
      [] name = "letter" -> << Frac(2159, 10), Frac(2794, 10) >>
      [] name = "legal" -> << Frac(2159, 10), Frac(3556, 10) >>

\* args.size is a string: text is the string where json.loads rejects it, and
\* json is the list json.loads returns where it accepts it
SizeName(text) == [text |-> text, json |-> <<>>]
SizeJson(w, h) == [text |-> "", json |-> << Whole(w), Whole(h) >>]

\* line 116: args.size.lower() == 'auto'
IsAuto(size) == size.text \in {"auto", "Auto", "AUTO"}

\* page_size(str), called at line 122, raises KeyError at line 261
PageSizeRaises(size) == size.json = <<>> /\ size.text \notin PageSizeNames

\* page_size(str)
PageSize(size) == IF size.json # <<>> THEN size.json ELSE PAGE_SIZES(size.text)

\* args.margin: the int 20 by default; the option has no type, so a margin
\* given on the command line is a str
DefaultMargin == 20
MarginDefault == [is_str |-> FALSE, value |-> DefaultMargin]
MarginGiven(v) == [is_str |-> TRUE, value |-> v]

\* line 118: args.dpi / 25.4
ScaleAuto(dpi) == Frac(dpi * 10, 254)

\* line 119
PageDimAuto(margin, sc, dims) ==
    [ a \in 1 .. 2 |-> FAdd(Whole(2 * margin), FDiv(Whole(dims[a]), sc)) ]

\* line 123
PageSansMargin(margin, pdim) ==
    [ a \in 1 .. 2 |-> FSub(pdim[a], Whole(2 * margin)) ]

\* a scale that lets the looser axis decide
ScaleFixedMin(dims, page_sans_margin) ==
    FMin(FDiv(Whole(dims[1]), page_sans_margin[1]),
         FDiv(Whole(dims[2]), page_sans_margin[2]))

\* line 124, and line 140 with the page in place of the page without margin
ScaleFixed(dims, page_sans_margin) ==
    FMax(FDiv(Whole(dims[1]), page_sans_margin[1]),
         FDiv(Whole(dims[2]), page_sans_margin[2]))

\* line 143
ImgDim(size, img_scale) == [ a \in 1 .. 2 |-> FDiv(Whole(size[a]), img_scale) ]

\* line 144
ImgOffset(img_dim, pdim) ==
    [ a \in 1 .. 2 |-> FDiv(FSub(pdim[a], img_dim[a]), Whole(2)) ]

MaxPx == 2
MaxPages == 2

ImageSizes == (1 .. MaxPx) \X (1 .. MaxPx)

MergeFileLists == UNION { [1 .. n -> ImageSizes] : n \in 1 .. MaxPages }

SizeArgs ==
    { SizeName("auto"), SizeName("A4"), SizeName("letter"), SizeName("a4"),
      SizeJson(100, 100), SizeJson(30, 100), SizeJson(40, 100) }

MarginArgs == { MarginDefault, MarginGiven(10) }

DpiArgs == { 72 }

\* args.expand: None where the option is not given, else the list of ints
ExpandNone == [given |-> FALSE, list |-> {}]
ExpandArgs ==
    {ExpandNone} \cup
    { [given |-> TRUE, list |-> e] : e \in SUBSET (1 .. MaxPages + 1) }

MergeIdle ==
    /\ gpc = "idle"
    /\ g_files = <<>>
    /\ g_margin = MarginDefault
    /\ g_size = SizeName("auto")
    /\ g_dpi = 72
    /\ g_expand = ExpandNone
    /\ g_output = "absent"
    /\ max_img_dim = <<0, 0>>
    /\ scale = Whole(0)
    /\ page_dim = <<>>
    /\ gi = 0
    /\ pages = <<>>
    /\ g_error = ""
    /\ g_line = 0

MergeStart ==
    /\ gpc = "check"
    /\ g_files \in MergeFileLists
    /\ g_margin \in MarginArgs
    /\ g_size \in SizeArgs
    /\ g_dpi \in DpiArgs
    /\ g_expand \in ExpandArgs
    /\ g_output \in {"absent", "present"}
    /\ max_img_dim = <<0, 0>>
    /\ scale = Whole(0)
    /\ page_dim = <<>>
    /\ gi = 0
    /\ pages = <<>>
    /\ g_error = ""
    /\ g_line = 0

MergeRaise(name, line) ==
    /\ gpc' = "error"
    /\ g_error' = name
    /\ g_line' = line

\* lines 106-107
MergeOutputExists ==
    /\ gpc = "check"
    /\ g_output = "present"
    /\ MergeRaise("FileExistsError", 107)
    /\ UNCHANGED <<g_files, g_margin, g_size, g_dpi, g_expand, g_output,
                   max_img_dim, scale, page_dim, gi, pages, notMerge>>

\* lines 106-114
MergeLoadDimensions ==
    /\ gpc = "check"
    /\ g_output = "absent"
    /\ max_img_dim' =
          << Max({0} \cup { g_files[k][1] : k \in 1 .. Len(g_files) }),
             Max({0} \cup { g_files[k][2] : k \in 1 .. Len(g_files) }) >>
    /\ gpc' = "layout"
    /\ UNCHANGED <<g_files, g_margin, g_size, g_dpi, g_expand, g_output,
                   scale, page_dim, gi, pages, g_error, g_line, notMerge>>

\* lines 116-119
MergeLayoutAuto ==
    /\ gpc = "layout"
    /\ IsAuto(g_size)
    /\ IF g_dpi = 0
       THEN MergeRaise("ZeroDivisionError", 119) /\ UNCHANGED <<scale, page_dim, gi>>
       ELSE IF g_margin.is_str
       THEN MergeRaise("TypeError", 119) /\ UNCHANGED <<scale, page_dim, gi>>
       ELSE /\ scale' = ScaleAuto(g_dpi)
            /\ page_dim' = PageDimAuto(g_margin.value, ScaleAuto(g_dpi), max_img_dim)
            /\ gi' = 1
            /\ gpc' = "loop"
            /\ UNCHANGED <<g_error, g_line>>
    /\ UNCHANGED <<g_files, g_margin, g_size, g_dpi, g_expand, g_output,
                   max_img_dim, pages, notMerge>>

\* lines 120-124
MergeLayoutFixed ==
    /\ gpc = "layout"
    /\ ~IsAuto(g_size)
    /\ IF PageSizeRaises(g_size)
       THEN MergeRaise("KeyError", 122) /\ UNCHANGED <<scale, page_dim, gi>>
       ELSE IF g_margin.is_str
       THEN MergeRaise("TypeError", 123) /\ UNCHANGED <<scale, page_dim, gi>>
       ELSE LET psm == PageSansMargin(g_margin.value, PageSize(g_size))
            IN  IF FIsZero(psm[1]) \/ FIsZero(psm[2])
                THEN MergeRaise("ZeroDivisionError", 124)
                     /\ UNCHANGED <<scale, page_dim, gi>>
                ELSE /\ scale' = ScaleFixed(max_img_dim, psm)
                     /\ page_dim' = PageSize(g_size)
                     /\ gi' = 1
                     /\ gpc' = "loop"
                     /\ UNCHANGED <<g_error, g_line>>
    /\ UNCHANGED <<g_files, g_margin, g_size, g_dpi, g_expand, g_output,
                   max_img_dim, pages, notMerge>>

\* line 139 with args.expand None: the in test raises
MergePageRaises ==
    /\ gpc = "loop"
    /\ gi <= Len(g_files)
    /\ ~g_expand.given
    /\ MergeRaise("TypeError", 139)
    /\ UNCHANGED <<g_files, g_margin, g_size, g_dpi, g_expand, g_output,
                   max_img_dim, scale, page_dim, gi, pages, notMerge>>

\* lines 135-150: one page with the image on it
MergePage ==
    /\ gpc = "loop"
    /\ gi <= Len(g_files)
    /\ g_expand.given
    /\ LET expanded == gi \in g_expand.list
           img_scale == IF expanded THEN ScaleFixed(g_files[gi], page_dim)
                        ELSE scale
           img_dim == ImgDim(g_files[gi], img_scale)
       IN  pages' = Append(pages,
                [ file |-> gi, img_scale |-> img_scale, img_dim |-> img_dim,
                  img_offset |-> ImgOffset(img_dim, page_dim) ])
    /\ gi' = gi + 1
    /\ UNCHANGED <<gpc, g_files, g_margin, g_size, g_dpi, g_expand, g_output,
                   max_img_dim, scale, page_dim, g_error, g_line, notMerge>>

\* lines 152-153
MergeWrite ==
    /\ gpc = "loop"
    /\ gi > Len(g_files)
    /\ g_output' = "pdf"
    /\ gpc' = "done"
    /\ UNCHANGED <<g_files, g_margin, g_size, g_dpi, g_expand, max_img_dim,
                   scale, page_dim, gi, pages, g_error, g_line, notMerge>>

MergeNext ==
    \/ MergeOutputExists \/ MergeLoadDimensions
    \/ MergeLayoutAuto \/ MergeLayoutFixed
    \/ MergePageRaises \/ MergePage \/ MergeWrite

----------------------------------------------------------------------------
(* snip *)

\* find_contiguous_rectangles(nparr) as one function: lines 199-205
FindContiguousRectangles(mask) ==
    LET lab == Label(mask)
    IN  Sorted([ i \in 1 .. lab.n |->
            RectangleOf({ c \in DOMAIN lab.labels : lab.labels[c] = i }) ])

\* line 83: roi_img[:, :, 3] == 0, the <<row, col>> of the transparent pixels
FullAlpha(im) ==
    { c \in (0 .. Height(im) - 1) \X (0 .. Width(im) - 1) :
        GetPixel(im, c[2], c[1])[4] = 0 }

\* the positions of character ch in str
Positions(str, ch) == { k \in 1 .. Len(str) : str[k] = ch }

\* os.path.basename(path): what follows the last "/"
Basename(path) ==
    IF Positions(path, "/") = {} THEN path
    ELSE SubSeq(path, Max(Positions(path, "/")) + 1, Len(path))

\* os.path.splitext(name)[0]: what precedes the last ".", leading dots aside
SplitextRoot(name) ==
    LET lead == Min({ k \in 1 .. Len(name) + 1 :
                        k = Len(name) + 1 \/ name[k] # "." })
        dots == { k \in Positions(name, ".") : k > lead }
    IN  IF dots = {} THEN name ELSE SubSeq(name, 1, Max(dots) - 1)

DecimalDigits == << "0", "1", "2", "3", "4", "5", "6", "7", "8", "9" >>

\* str(n) of a natural number, as an f-string formats it
RECURSIVE Decimal(_)
Decimal(n) ==
    IF n < 10 THEN << DecimalDigits[n + 1] >>
    ELSE Decimal(n \div 10) \o << DecimalDigits[(n % 10) + 1] >>

\* line 99: the name of the snippet of rectangle ri (0-based) of file f
OutFile(f, r, format) ==
    SplitextRoot(Basename(f)) \o <<"-">> \o Decimal(r + 1) \o <<".">> \o format

\* dict-like update: the file name now holds image
Save(files, name, image) ==
    [ n \in DOMAIN files \cup {name} |-> IF n = name THEN image ELSE files[n] ]

MaxSnipFiles == 2

PathAX == << "a", "/", "x", ".", "p", "n", "g" >>
PathBX == << "b", "/", "x", ".", "p", "n", "g" >>
PathAY == << "a", "/", "y", ".", "v", "2", ".", "p", "n", "g" >>
PathGone == << "g", "o", "n", "e", ".", "p", "n", "g" >>

SnipPaths == { PathAX, PathBX, PathAY, PathGone }

\* what Image.open finds at each path
ImageAt(path) ==
    CASE path = PathAX -> UniformImage("RGB", 2, 2, <<255, 255, 255>>)
      [] path = PathBX -> UniformImage("RGB", 2, 2, <<0, 25, 0>>)
      [] path = PathAY ->
            MkImage("RGBA", 2, 1, << << <<0, 0, 0, 255>>, <<255, 255, 255, 255>> >> >>)
      [] OTHER -> Missing

SnipFileLists ==
    { fs \in UNION { [1 .. n -> SnipPaths] : n \in 1 .. MaxSnipFiles } :
        \A k, l \in 1 .. Len(fs) : k # l => fs[k] # fs[l] }

\* args.roi is a string: json says whether json.loads accepts it, and then
\* list is what it returns; else file is what Image.open finds at that path
RoiJson(list) == [json |-> TRUE, list |-> list, file |-> Missing]
RoiFile(image) == [json |-> FALSE, list |-> <<>>, file |-> image]

\* a 3x3 RGBA image, transparent in its top-left 2x2 block
MaskImage ==
    MkImage("RGBA", 3, 3,
        [y \in 1 .. 3 |-> [x \in 1 .. 3 |->
            IF x <= 2 /\ y <= 2 THEN <<0, 0, 0, 0>> ELSE <<0, 0, 0, 255>>]])

RoiArgs ==
    { RoiJson(<<>>), RoiJson(<< <<0, 0, 1, 1>> >>),
      RoiJson(<< <<0, 0, 2, 2>>, <<1, 0, 2, 1>> >>),
      RoiFile(MaskImage), RoiFile(Missing),
      RoiFile(UniformImage("RGB", 2, 2, <<0, 0, 0>>)) }

SnipCropArgs ==
    { <<"n", "o">>, <<"a", "u", "t", "o">>, <<"#", "f", "f", "f">> }

FormatPng == << "p", "n", "g" >>
FormatJpeg == << "j", "p", "e", "g" >>

\* line 42: the default of --tolerance
DefaultTolerance == 10

NoFiles == [ n \in {} |-> NoImage ]

SnipIdle ==
    /\ spc = "idle"
    /\ s_files = <<>>
    /\ s_roi = RoiJson(<<>>)
    /\ s_outputdir = "absent"
    /\ s_crop = <<"n", "o">>
    /\ s_tolerance = DefaultTolerance
    /\ s_format = FormatPng
    /\ roi = <<>>
    /\ si = 0
    /\ s_img = NoImage
    /\ sri = 0
    /\ s_i = 0
    /\ out_files = NoFiles
    /\ s_steps = <<>>
    /\ s_error = ""
    /\ s_line = 0

SnipStart ==
    /\ spc = "roi"
    /\ s_files \in SnipFileLists
    /\ s_roi \in RoiArgs
    /\ s_outputdir \in {"absent", "present"}
    /\ s_crop \in SnipCropArgs
    /\ s_tolerance = DefaultTolerance
    /\ s_format \in {FormatPng, FormatJpeg}
    /\ roi = <<>>
    /\ si = 0
    /\ s_img = NoImage
    /\ sri = 0
    /\ s_i = 0
    /\ out_files = NoFiles
    /\ s_steps = <<>>
    /\ s_error = ""
    /\ s_line = 0

SnipRaise(name, line) ==
    /\ spc' = "error"
    /\ s_error' = name
    /\ s_line' = line

\* lines 77-79, 85: the ROIs are the JSON list
SnipRoiFromJson ==
    /\ spc = "roi"
    /\ s_roi.json
    /\ roi' = s_roi.list
    /\ spc' = "makedirs"
    /\ UNCHANGED <<s_files, s_roi, s_outputdir, s_crop, s_tolerance, s_format,
                   si, s_img, sri, s_i, out_files, s_steps, s_error, s_line,
                   notSnip>>

\* lines 80-83: no image at the path, or an image without an alpha channel
SnipRoiFileRaises ==
    /\ spc = "roi"
    /\ ~s_roi.json
    /\ \/ /\ s_roi.file = Missing
          /\ SnipRaise("FileNotFoundError", 82)
          /\ UNCHANGED s_steps
       \/ /\ s_roi.file # Missing
          /\ Bands(s_roi.file.mode) < 4
          /\ SnipRaise("IndexError", 83)
          /\ s_steps' = Append(s_steps, "load roi image")
    /\ UNCHANGED <<s_files, s_roi, s_outputdir, s_crop, s_tolerance, s_format,
                   roi, si, s_img, sri, s_i, out_files, notSnip>>

\* lines 80-85: the ROIs are discovered in the image at the path
SnipRoiFromFile ==
    /\ spc = "roi"
    /\ ~s_roi.json
    /\ s_roi.file # Missing
    /\ Bands(s_roi.file.mode) = 4
    /\ roi' = FindContiguousRectangles(FullAlpha(s_roi.file))
    /\ s_steps' = s_steps \o <<"load roi image", "find rectangles">>
    /\ spc' = "makedirs"
    /\ UNCHANGED <<s_files, s_roi, s_outputdir, s_crop, s_tolerance, s_format,
                   si, s_img, sri, s_i, out_files, s_error, s_line, notSnip>>

\* line 89: os.makedirs raises if the directory exists
SnipMakedirsExists ==
    /\ spc = "makedirs"
    /\ s_outputdir = "present"
    /\ SnipRaise("FileExistsError", 89)
    /\ UNCHANGED <<s_files, s_roi, s_outputdir, s_crop, s_tolerance, s_format,
                   roi, si, s_img, sri, s_i, out_files, s_steps, notSnip>>

\* lines 89-93
SnipMakedirs ==
    /\ spc = "makedirs"
    /\ s_outputdir = "absent"
    /\ s_outputdir' = "created"
    /\ s_i' = 0
    /\ si' = 1
    /\ spc' = "file"
    /\ UNCHANGED <<s_files, s_roi, s_crop, s_tolerance, s_format, roi, s_img,
                   sri, out_files, s_steps, s_error, s_line, notSnip>>

\* line 95: no image at the path
SnipOpenRaises ==
    /\ spc = "file"
    /\ si <= Len(s_files)
    /\ ImageAt(s_files[si]) = Missing
    /\ SnipRaise("FileNotFoundError", 95)
    /\ UNCHANGED <<s_files, s_roi, s_outputdir, s_crop, s_tolerance, s_format,
                   roi, si, s_img, sri, s_i, out_files, s_steps, notSnip>>

\* lines 94-95
SnipOpen ==
    /\ spc = "file"
    /\ si <= Len(s_files)
    /\ ImageAt(s_files[si]) # Missing
    /\ s_img' = ImageAt(s_files[si])
    /\ sri' = 0
    /\ s_steps' = Append(s_steps, "open image")
    /\ spc' = "rois"
    /\ UNCHANGED <<s_files, s_roi, s_outputdir, s_crop, s_tolerance, s_format,
                   roi, si, s_i, out_files, s_error, s_line, notSnip>>

\* lines 97-101 with crop raising at line 233
SnipCropRaises ==
    /\ spc = "rois"
    /\ sri < Len(roi)
    /\ ResolveColorRaises(s_crop)
    /\ SnipRaise("ValueError", 101)
    /\ s_i' = s_i + 1
    /\ UNCHANGED <<s_files, s_roi, s_outputdir, s_crop, s_tolerance, s_format,
                   roi, si, s_img, sri, out_files, s_steps, notSnip>>

\* lines 97-101: one snippet cropped and saved
SnipCropSave ==
    /\ spc = "rois"
    /\ sri < Len(roi)
    /\ ~ResolveColorRaises(s_crop)
    /\ s_i' = s_i + 1
    /\ out_files' = Save(out_files, OutFile(s_files[si], sri, s_format),
                         Crop(s_img, roi[sri + 1], s_crop, s_tolerance))
    /\ s_steps' = s_steps \o <<"crop", "save">>
    /\ sri' = sri + 1
    /\ UNCHANGED <<spc, s_files, s_roi, s_outputdir, s_crop, s_tolerance,
                   s_format, roi, si, s_img, s_error, s_line, notSnip>>

\* line 97 exhausted: on to the next file
SnipNextFile ==
    /\ spc = "rois"
    /\ sri >= Len(roi)
    /\ si' = si + 1
    /\ spc' = "file"
    /\ UNCHANGED <<s_files, s_roi, s_outputdir, s_crop, s_tolerance, s_format,
                   roi, s_img, sri, s_i, out_files, s_steps, s_error, s_line,
                   notSnip>>

\* line 94 exhausted: snip returns
SnipReturn ==
    /\ spc = "file"
    /\ si > Len(s_files)
    /\ spc' = "done"
    /\ UNCHANGED <<s_files, s_roi, s_outputdir, s_crop, s_tolerance, s_format,
                   roi, si, s_img, sri, s_i, out_files, s_steps, s_error,
                   s_line, notSnip>>

SnipNext ==
    \/ SnipRoiFromJson \/ SnipRoiFileRaises \/ SnipRoiFromFile
    \/ SnipMakedirsExists \/ SnipMakedirs
    \/ SnipOpenRaises \/ SnipOpen
    \/ SnipCropRaises \/ SnipCropSave \/ SnipNextFile \/ SnipReturn

----------------------------------------------------------------------------
(* Specifications *)

InitRegions == RegionStart /\ CropIdle /\ MeldIdle /\ MergeIdle /\ SnipIdle
SpecRegions == InitRegions /\ [][RegionNext]_vars

InitCrop == CropStart /\ RegionIdle /\ MeldIdle /\ MergeIdle /\ SnipIdle
SpecCrop == InitCrop /\ [][CropNext]_vars

InitMeld == MeldStart /\ RegionIdle /\ CropIdle /\ MergeIdle /\ SnipIdle
SpecMeld == InitMeld /\ [][MeldNext]_vars

InitMerge == MergeStart /\ RegionIdle /\ CropIdle /\ MeldIdle /\ SnipIdle
SpecMerge == InitMerge /\ [][MergeNext]_vars

InitSnip == SnipStart /\ RegionIdle /\ CropIdle /\ MeldIdle /\ MergeIdle
SpecSnip == InitSnip /\ [][SnipNext]_vars

\* main(): one of the three commands runs
InitCommand ==
    /\ RegionIdle /\ CropIdle
    /\ \/ SnipStart /\ MeldIdle /\ MergeIdle
       \/ MeldStart /\ SnipIdle /\ MergeIdle
       \/ MergeStart /\ MeldIdle /\ SnipIdle
CommandNext == SnipNext \/ MeldNext \/ MergeNext
Spec == InitCommand /\ [][CommandNext]_vars

----------------------------------------------------------------------------
(* Claims about find_contiguous_rectangles *)

Components(mask) == { ComponentOf(mask, c) : c \in mask }

\* the rectangle with exclusive right and bottom: max + 1
ExclusiveBox(cells) ==
    LET rows == { c[1] : c \in cells }
        cols == { c[2] : c \in cells }
    IN  << Min(cols), Min(rows), Max(cols) + 1, Max(rows) + 1 >>

\* C1: every rectangle find_contiguous_rectangles returns is [left, top, right,
\* bottom] of one connected component with left = min column, top = min row,
\* right = max column + 1 and bottom = max row + 1, one rectangle per
\* component; the two 2x2 blocks at (0,0)-(1,1) and (5,5)-(6,6) give
\* [[0,0,2,2],[5,5,7,7]].
C1_ExclusiveRectangles ==
    rpc = "done" =>
        /\ { rectangles[k] : k \in 1 .. Len(rectangles) }
              = { ExclusiveBox(comp) : comp \in Components(nparr) }
        /\ nparr = TwoBlocks =>
              rectangles = << <<0, 0, 2, 2>>, <<5, 5, 7, 7>> >>

ClaimKey(r) == 2 * r[1] + r[2]

\* the rectangles in the order the labeling discovered their components
Discovered ==
    [ i \in 1 .. num_features |->
        RectangleOf({ c \in DOMAIN labeled_array : labeled_array[c] = i }) ]

\* position of a returned rectangle in the discovery order
DiscoveryIndex(k) ==
    CHOOSE i \in 1 .. num_features : Discovered[i] = rectangles[k]

\* C2: the returned sequence holds the discovered rectangles sorted by
\* ascending 2*left + top, rectangles of equal key staying in discovery order,
\* and a mask without true cells gives the empty sequence.
C2_SortedStable ==
    rpc = "done" =>
        /\ Len(rectangles) = Cardinality(Components(nparr))
        /\ \A k \in 1 .. Len(rectangles) :
              \E i \in 1 .. num_features : Discovered[i] = rectangles[k]
        /\ \A k, l \in 1 .. Len(rectangles) :
              k < l =>
                 \/ ClaimKey(rectangles[k]) < ClaimKey(rectangles[l])
                 \/ /\ ClaimKey(rectangles[k]) = ClaimKey(rectangles[l])
                    /\ DiscoveryIndex(k) < DiscoveryIndex(l)
        /\ nparr = {} => rectangles = <<>>

\* a finished run that returned two rectangles of equal key
C2_Witness ==
    /\ rpc = "done"
    /\ \E k, l \in 1 .. Len(rectangles) :
          /\ k < l
          /\ ClaimKey(rectangles[k]) = ClaimKey(rectangles[l])
          /\ rectangles[k][1] # rectangles[l][1]

----------------------------------------------------------------------------
(* Claims about crop *)

\* the sub-grid the region cuts from the source image
ClaimSubGrid ==
    [ y \in 0 .. region[4] - region[2] - 1 |->
        [ x \in 0 .. region[3] - region[1] - 1 |->
            IF region[1] + x < img.size[1] /\ region[2] + y < img.size[2]
            THEN img.px[region[2] + y + 1][region[1] + x + 1]
            ELSE [ b \in 1 .. Len(img.px[1][1]) |-> 0 ] ] ]

\* the pixels of an image as ClaimSubGrid holds them
ClaimGrid(im) ==
    [ y \in 0 .. im.size[2] - 1 |->
        [ x \in 0 .. im.size[1] - 1 |-> im.px[y + 1][x + 1] ] ]

CropReturned == cpc \in {"done", "again"}

AutocropEnabled == Upper(color_arg) # <<"N", "O">>

\* C4: with autocrop enabled and a tolerance of 100 percent crop returns the
\* sub-grid the region cuts, unchanged and not empty, whatever the image, the
\* region and the reference colour.
C4_FullToleranceUnchanged ==
    (CropReturned /\ AutocropEnabled /\ tolerance = 100) =>
        /\ ClaimGrid(img_cropped) = ClaimSubGrid
        /\ img_cropped.size = <<region[3] - region[1], region[4] - region[2]>>
        /\ img_cropped.size[1] > 0 /\ img_cropped.size[2] > 0

\* crop returned under a tolerance of 100 percent with a pixel of the sub-grid
\* the full 255 away from the reference colour
C4_Witness ==
    /\ cpc = "done" /\ AutocropEnabled /\ tolerance = 100
    /\ \E y \in DOMAIN ClaimSubGrid : \E x \in DOMAIN ClaimSubGrid[y] :
          /\ Abs(ClaimSubGrid[y][x][1] - autocrop_color[1]) = 255
          /\ <<x, y>> # <<0, 0>>
          /\ Abs(ClaimSubGrid[0][0][1] - autocrop_color[1]) = 0

\* the <<x, y>> of the sub-grid's pixels that are not background: some one of
\* the first three channels is more than tolerance/100*255 away from the
\* reference colour
ClaimNonBackground ==
    { c \in (0 .. region[3] - region[1] - 1) \X (0 .. region[4] - region[2] - 1) :
        \E ch \in 1 .. 3 :
            100 * Abs(ClaimSubGrid[c[2]][c[1]][ch] - autocrop_color[ch])
                > 255 * tolerance }

ClaimBoundingGrid ==
    LET xs == { c[1] : c \in ClaimNonBackground }
        ys == { c[2] : c \in ClaimNonBackground }
    IN  [ y \in 0 .. Max(ys) - Min(ys) |->
            [ x \in 0 .. Max(xs) - Min(xs) |->
                ClaimSubGrid[Min(ys) + y][Min(xs) + x] ] ]

IsBorderCase ==
    /\ \E b, c \in PaletteRGB : b # c /\ img = BorderImage(b, c)
    /\ region = <<0, 0, 3, 3>>
    /\ tolerance = 0
    /\ AutocropEnabled
    /\ \A ch \in 1 .. 3 : autocrop_color[ch] = img.px[1][1][ch]

\* C9: with autocrop enabled and a pixel of the sub-grid out of tolerance,
\* crop returns the sub-grid restricted to the rows and columns between the
\* first and the last pixel that is not background; with tolerance 0 a border
\* one pixel wide of the reference colour is removed exactly; the autocrop
\* applied again to the returned image, with the same reference colour and
\* tolerance, returns it unchanged.
C9_BoundingBoxOfNonBackground ==
    (CropReturned /\ AutocropEnabled) =>
        /\ ClaimNonBackground # {} => ClaimGrid(img_cropped) = ClaimBoundingGrid
        /\ IsBorderCase =>
              /\ img_cropped.size = <<1, 1>>
              /\ img_cropped.px[1][1] = img.px[2][2]
        /\ cpc = "again" => again = img_cropped

\* the border case: the border was cut away and the autocrop applied again
C9_Witness == cpc = "again" /\ IsBorderCase /\ img_cropped.size = <<1, 1>>

\* C10: in 'auto' mode the reference colour crop uses is the RGB of the top-left
\* pixel of the sub-grid the region cuts from the source image.
C10_AutoSamplesSubGrid ==
    (CropReturned /\ Upper(color_arg) = <<"A", "U", "T", "O">>) =>
        \A ch \in 1 .. 3 : autocrop_color[ch] = ClaimSubGrid[0][0][ch]

----------------------------------------------------------------------------
(* Claims about meld *)

\* the inputs folded so far, all of them once the fold has returned
ClaimFolded == { m_files[k] : k \in 1 .. Min({mi - 1, Len(m_files)}) }

\* C3: for every sequence of one or more input grids with 3 or 4 channels
\* and for either method the meld fold completes, and the grid it has built
\* is as wide and as high as the widest and the highest input folded so far.
C3_MeldFoldCompletes ==
    /\ mpc = "error" => m_error \in {"FileExistsError", "FileNotFoundError"}
    /\ (mpc \in {"fold", "save", "done"} /\ combined # PathString) =>
          /\ combined.size[1] = Max({ f.size[1] : f \in ClaimFolded })
          /\ combined.size[2] = Max({ f.size[2] : f \in ClaimFolded })

----------------------------------------------------------------------------
(* Claims about merge *)

\* page size minus two margins, in mm, on axis a
ClaimPrintable(a) == FSub(page_dim[a], Whole(2 * g_margin.value))

ClaimFixedPage == ~IsAuto(g_size)

\* the pages whose image was drawn with the global scale
ClaimPlainPages == { k \in 1 .. Len(pages) : pages[k].file \notin g_expand.list }

ClaimFullPageScale(k) ==
    FMax(FDiv(Whole(g_files[k][1]), page_dim[1]),
         FDiv(Whole(g_files[k][2]), page_dim[2]))

\* C6: a merge run emits one page per input image, in input order, for every
\* expand setting (none given, empty, indices outside 1..n): nothing raises
\* once the page loop is entered, and image k is placed with the full-page
\* scale if k is in the expand set and with the global scale otherwise.
C6_OnePagePerImage ==
    /\ gpc = "error" => g_line < 135
    /\ gpc = "done" =>
          /\ Len(pages) = Len(g_files)
          /\ \A k \in 1 .. Len(pages) :
                /\ pages[k].file = k
                /\ k \in g_expand.list =>
                      pages[k].img_scale = ClaimFullPageScale(k)
                /\ k \notin g_expand.list => pages[k].img_scale = scale

----------------------------------------------------------------------------
(* Claims about the commands *)

\* C7: in meld, snip and merge the check that the output already exists comes
\* before any processing step (image loading, ROI discovery, melding,
\* cropping), and a run that fails leaves no partially written or empty output
\* behind.
C7_OutputCheckedFirst ==
    /\ m_error = "FileExistsError" => combined = NoImage
    /\ s_error = "FileExistsError" => s_steps = <<>>
    /\ g_error = "FileExistsError" => pages = <<>> /\ max_img_dim = <<0, 0>>
    /\ mpc = "error" => m_output \in {"absent", "present"}
    /\ spc = "error" => s_outputdir \in {"absent", "present"}
    /\ gpc = "error" => g_output \in {"absent", "present"}

\* C8: a snip run over the source images F and the rectangles R that completes
\* leaves |F| x |R| files in the output directory, the file named
\* <base name>-<1-based rectangle index>.<format> holding the snippet of its
\* (source image, rectangle) pair, for any list of source paths.
C8_OneFilePerPair ==
    spc = "done" =>
        /\ Cardinality(DOMAIN out_files) = Len(s_files) * Len(roi)
        /\ \A k \in 1 .. Len(s_files) : \A j \in 1 .. Len(roi) :
              LET name == OutFile(s_files[k], j - 1, s_format)
              IN  /\ name \in DOMAIN out_files
                  /\ out_files[name] =
                        Crop(ImageAt(s_files[k]), roi[j], s_crop, s_tolerance)

====
